---- MODULE Spec2Model ----
(***************************************************************************)
(* Verification model of the MCP orchestration core of BrainyAI:           *)
(*   - MCPProcessManager (src/libs/mcp/MCPProcessManager.ts): the server   *)
(*     lifecycle, tool calls, health check and event emission;             *)
(*   - MCPProxyServer.sendMCPMessage (src/scripts/mcp-proxy-server.js):    *)
(*     the stdout response correlation of the HTTP proxy.                  *)
(* JavaScript runs each handler to its next await without interruption, so *)
(* every action below is one such run: the synchronous prefix of a call or *)
(* the continuation that follows the settlement of an awaited promise.     *)
(***************************************************************************)
EXTENDS Integers, Sequences, FiniteSets, TLC

\* ------------------------------------------------------------------ bounds
MaxCalls == 2          \* API calls issued on the manager in one behaviour
MaxTools == 1          \* largest tool list a server returns
MaxReqs == 2           \* proxy requests sent in one behaviour
MaxOut == 2            \* writes of the server process to stdout in one behaviour
MaxChunk == 1          \* largest number of writes in one 'data' event
MaxBoot == 2           \* writes of one spawned process to its stdout
MaxLists == 2          \* listTools calls on the protocol clients
MaxPayload == 1        \* largest tool array the bridge answers with
MaxMsgs == 2           \* requests of the process-management message handler
MaxBatch == 4          \* tool calls in the batch of one LLM turn

ServerNames == {"alpha"}
Calls == 1..MaxCalls

\* the start requests of the proxy for one serverName: a start and a restart
Starts == {1, 2}

VARIABLES
    clients,         \* MCPProcessManager.clients: Map<string, MCPClient>
    serverStatuses,  \* MCPProcessManager.serverStatuses: Map<string, MCPServerStatus>
    clientObjs,      \* every MCPClient instance constructed so far, by identity
    calls,           \* the asynchronous API calls: operation, position, locals, outcome
    events,          \* the events handed to emitEvent by each call, in emission order
    healthEvents,    \* the events handed to emitEvent by the latest health check
    transitions      \* the status changes made by the latest run that updated a status

\* the HTTP proxy (mcp-proxy-server.js), one tracked server process
VARIABLES
    pxReqs,          \* the sendMCPMessage invocations: message id, responseData, promise
    pxListeners,     \* the responseHandlers registered on mcpInfo.stdout 'data'
    pxTimers,        \* the armed 15 s timers
    pxStdin,         \* the message ids written to the process's stdin, in order
    pxOut,           \* number of writes of the process to stdout so far
    pxLate           \* the timed-out requests whose response was written afterwards

\* the tool registry (MCPToolRegistry.ts)
VARIABLES
    tools,           \* MCPToolRegistry.tools: Map<string, MCPTool>, by tool key
    serverTools,     \* MCPToolRegistry.serverTools: Map<string, MCPTool[]>
    registered,      \* per (serverName, name): the tool registered last since the last clear
    returned         \* the value the latest call of the registry returned

\* event subscription (MCPProcessManager.eventListeners)
VARIABLES
    eventListeners,  \* MCPProcessManager.eventListeners: Map<string, listener[]>
    emitted,         \* the latest emitEvent: its server name and the listeners registered then
    delivered        \* the listeners the latest emitEvent called, in call order

\* the aggregate operations and the status query of the manager
VARIABLES
    stopAll,         \* the stopAllServers call: position, the stops it awaits, their outcomes
    listAll,         \* the listAllTools call: position, names visited, allTools, the answers
    queried          \* the value the latest getServerStatus returned

mgrVars == <<clients, serverStatuses, clientObjs, calls, events, healthEvents, transitions>>

pxVars == <<pxReqs, pxListeners, pxTimers, pxStdin, pxOut, pxLate>>

regVars == <<tools, serverTools, registered, returned>>

evVars == <<eventListeners, emitted, delivered>>

aggVars == <<stopAll, listAll, queried>>

\* POST /mcp/start of the HTTP proxy
VARIABLES
    mcpProcesses,    \* MCPProxyServer.mcpProcesses for the serverName: the process, 0 for none
    procs,           \* the processes spawned so far
    starts           \* the handleMCPStart invocations: position, promises, timers, response

\* the protocol client, the message handler and the tool-call batch
VARIABLES
    listing,         \* the listTools calls of the protocol clients
    msgs,            \* the requests of the process-management message handler
    batch            \* the batch of tool calls of one LLM turn

startVars == <<mcpProcesses, procs, starts>>

moreVars == <<startVars, listing, msgs, batch>>

extVars == <<regVars, evVars, aggVars, moreVars>>

vars == <<mgrVars, pxVars, extVars>>

\* ------------------------------------------------------------ Map helpers
MapSet(m, k, v) == [x \in DOMAIN m \cup {k} |-> IF x = k THEN v ELSE m[x]]

MapDelete(m, k) == [x \in DOMAIN m \ {k} |-> m[x]]

\* { ...a, ...b }
Spread(a, b) == [f \in DOMAIN a \cup DOMAIN b |-> IF f \in DOMAIN b THEN b[f] ELSE a[f]]

\* ------------------------------------------------------- status bookkeeping
GetServerStatus(ss, n) ==
    IF n \in DOMAIN ss THEN ss[n] ELSE [name |-> n, status |-> "stopped"]

UpdateServerStatus(ss, n, partial) ==
    MapSet(ss, n, Spread(GetServerStatus(ss, n), partial))

\* the status changes between two values of the status map
Changes(ss1, ss2) ==
    {<<n, GetServerStatus(ss1, n).status, GetServerStatus(ss2, n).status>> :
        n \in {m \in DOMAIN ss1 \cup DOMAIN ss2 :
                 GetServerStatus(ss1, m).status # GetServerStatus(ss2, m).status}}

EmitEvent(ev, type, n) == Append(ev, [type |-> type, serverName |-> n])

\* ------------------------------------------------------------ MCPClient
NewClient(n) == [serverName |-> n, state |-> "connecting"]

IsConnected(cl) == cl.state = "connected"

SetClientState(objs, k, s) == [objs EXCEPT ![k].state = s]

\* ------------------------------------------------------------------ Init
Reqs == 1..MaxReqs

IdleReq == [state |-> "idle", id |-> 0, responseData |-> <<>>, result |-> [k |-> "none", id |-> 0], settles |-> 0]

IdleCall == [op |-> "none", name |-> "none", pc |-> "idle", client |-> 0, result |-> "none"]

NoEmit == [serverName |-> "none", listeners |-> <<>>]

IdleStopAll == [pc |-> "idle", names |-> {}, awaiting |-> <<>>, stopped |-> {}, failed |-> {},
                events |-> <<>>, result |-> "none", issued |-> {}]

IdleListAll == [pc |-> "idle", visited |-> {}, asked |-> {}, asking |-> "none", allTools |-> <<>>,
                answers |-> <<>>, result |-> "none"]

NoQuery == [name |-> "none", status |-> "none"]

NoProc == [state |-> "none", killed |-> FALSE, pid |-> FALSE, out |-> 0]

IdleStart == [pc |-> "idle", prior |-> 0, wait |-> "pending", by |-> "none", timeout |-> "none",
              grace |-> "none", once |-> FALSE, init |-> IdleReq, target |-> 0,
              initTimer |-> FALSE, notified |-> FALSE, response |-> "none", tracked |-> 0]

IdleList == [client |-> "none", pc |-> "idle", failed |-> "none", data |-> [other |-> TRUE],
             outcome |-> "none", value |-> <<>>]

IdleMsg == [pc |-> "idle", body |-> [undefined |-> TRUE], op |-> "none", sent |-> 0,
            escaped |-> FALSE, response |-> [none |-> TRUE]]

IdleBatch == [by |-> "none", calls |-> <<>>, pc |-> "idle", next |-> 0, settled |-> <<>>,
              order |-> <<>>, results |-> <<>>]

\* a call of the registry that returns nothing; a returned value is a record,
\* an array being held as the set of its elements under the field items
Void == [call |-> "none", arg |-> "", value |-> [undefined |-> TRUE]]

Init ==
    /\ clients = <<>>
    /\ serverStatuses = <<>>
    /\ clientObjs = <<>>
    /\ calls = [c \in Calls |-> IdleCall]
    /\ events = [c \in Calls |-> <<>>]
    /\ transitions = {}
    /\ healthEvents = <<>>
    /\ pxReqs = [r \in Reqs |-> IdleReq]
    /\ pxListeners = {}
    /\ pxTimers = {}
    /\ pxStdin = <<>>
    /\ pxOut = 0
    /\ pxLate = {}
    /\ tools = <<>>
    /\ returned = Void
    /\ mcpProcesses = 0
    /\ procs = [p \in Starts |-> NoProc]
    /\ starts = [s \in Starts |-> IdleStart]
    /\ listing = [c \in 1..MaxLists |-> IdleList]
    /\ msgs = [m \in 1..MaxMsgs |-> IdleMsg]
    /\ batch = IdleBatch
    /\ serverTools = <<>>
    /\ registered = <<>>
    /\ eventListeners = <<>>
    /\ emitted = NoEmit
    /\ delivered = <<>>
    /\ stopAll = IdleStopAll
    /\ listAll = IdleListAll
    /\ queried = NoQuery

\* call slots are used in order
CanIssue(c) ==
    /\ calls[c].pc = "idle"
    /\ \A d \in Calls : d < c => calls[d].pc # "idle"

\* ------------------------------------------------------------ startServer
\* lines 36-50: status 'starting', new MCPClient, client.connect() is awaited
StartStatus(ss, n) ==
    UpdateServerStatus(ss, n, [name |-> n, status |-> "starting", startTime |-> "now"])

StartBegin(c, n, op) ==
    LET ss1 == StartStatus(serverStatuses, n) IN
    /\ serverStatuses' = ss1
    /\ transitions' = Changes(serverStatuses, ss1)
    /\ clientObjs' = Append(clientObjs, NewClient(n))
    /\ calls' = [calls EXCEPT ![c] = [op |-> op, name |-> n, pc |-> "connecting",
                                      client |-> Len(clientObjs) + 1, result |-> "none"]]
    /\ UNCHANGED <<pxVars, extVars, clients, events, healthEvents>>

StartServer(c, n) ==
    /\ CanIssue(c)
    /\ StartBegin(c, n, "start")

\* lines 52-59: connect resolved; the client is saved and the info and tool
\* list are requested
SaveClient(cs, n, k) == MapSet(cs, n, k)

ConnectResolved(c) ==
    /\ calls[c].pc = "connecting"
    /\ clientObjs' = SetClientState(clientObjs, calls[c].client, "connected")
    /\ clients' = SaveClient(clients, calls[c].name, calls[c].client)
    /\ calls' = [calls EXCEPT ![c].pc = "listing"]
    /\ UNCHANGED <<pxVars, extVars, serverStatuses, events, transitions, healthEvents>>

\* lines 61-72: both requests settled (a failed one is replaced by null / []);
\* the values of startTime and serverInfo are not modelled
RunningStatus(ss, n, nTools) ==
    UpdateServerStatus(ss, n, [name |-> n, status |-> "running", startTime |-> "now",
                               toolCount |-> nTools, serverInfo |-> "info"])

\* lines 75-79
StartedEvents(ev, n) == EmitEvent(ev, "server_started", n)

ListResolved(c, nTools) ==
    LET n == calls[c].name
        ss1 == RunningStatus(serverStatuses, n, nTools) IN
    /\ calls[c].pc = "listing"
    /\ serverStatuses' = ss1
    /\ transitions' = Changes(serverStatuses, ss1)
    /\ events' = [events EXCEPT ![c] = StartedEvents(@, n)]
    /\ calls' = [calls EXCEPT ![c].pc = "done", ![c].result = "resolved"]
    /\ UNCHANGED <<pxVars, extVars, clients, clientObjs, healthEvents>>

\* the catch block without its status update
StartCatchStatus_Skipped(ss, n) == ss

\* lines 82-101: connect rejected; the catch block
StartCatchStatus(ss, n) ==
    UpdateServerStatus(ss, n, [name |-> n, status |-> "error", error |-> "start failed"])

StartCatchEvents(ev, n) == EmitEvent(ev, "server_error", n)

ConnectRejected(c) ==
    LET n == calls[c].name
        ss1 == StartCatchStatus(serverStatuses, n) IN
    /\ calls[c].pc = "connecting"
    /\ clientObjs' = SetClientState(clientObjs, calls[c].client, "failed")
    /\ serverStatuses' = ss1
    /\ transitions' = Changes(serverStatuses, ss1)
    /\ events' = [events EXCEPT ![c] = StartCatchEvents(@, n)]
    /\ calls' = [calls EXCEPT ![c].pc = "done", ![c].result = "rejected"]
    /\ UNCHANGED <<pxVars, extVars, clients, healthEvents>>

\* ------------------------------------------------------------- stopServer
\* lines 111-115
StoppingStatus(ss, n) == UpdateServerStatus(ss, n, [name |-> n, status |-> "stopping"])

\* lines 123-127
StoppedStatus(ss, n) == UpdateServerStatus(ss, n, [name |-> n, status |-> "stopped"])

\* the stop path without clients.delete
ReleaseClient_Kept(cs, n) == cs

\* line 120
ReleaseClient(cs, n) == MapDelete(cs, n)

\* line 130
StopEvents(ev, n) == EmitEvent(ev, "server_stopped", n)

\* lines 136-141
StopCatchStatus(ss, n) ==
    UpdateServerStatus(ss, n, [name |-> n, status |-> "error", error |-> "stop failed"])

\* lines 108-119 with a live client: status 'stopping', client.disconnect() is awaited;
\* lines 108-132 without one: no await, the call runs to its end
StopBegin(c, n, op) ==
    LET ss1 == StoppingStatus(serverStatuses, n)
        ss2 == StoppedStatus(ss1, n) IN
    IF n \in DOMAIN clients
    THEN /\ serverStatuses' = ss1
         /\ transitions' = Changes(serverStatuses, ss1)
         /\ calls' = [calls EXCEPT ![c] = [op |-> op, name |-> n, pc |-> "disconnecting",
                                           client |-> clients[n], result |-> "none"]]
         /\ UNCHANGED <<pxVars, extVars, clients, clientObjs, events, healthEvents>>
    ELSE /\ serverStatuses' = ss2
         /\ transitions' = Changes(serverStatuses, ss1) \cup Changes(ss1, ss2)
         /\ events' = [events EXCEPT ![c] = StopEvents(@, n)]
         /\ calls' = [calls EXCEPT ![c] = [op |-> op, name |-> n, pc |-> "done",
                                           client |-> 0, result |-> "resolved"]]
         /\ UNCHANGED <<pxVars, extVars, clients, clientObjs, healthEvents>>

StopServer(c, n) ==
    /\ CanIssue(c)
    /\ StopBegin(c, n, "stop")

\* lines 120-132: disconnect resolved.  Within restartServer (line 165) the
\* settling delay is awaited next.
DisconnectResolved(c) ==
    LET n == calls[c].name
        ss1 == StoppedStatus(serverStatuses, n) IN
    /\ calls[c].pc = "disconnecting"
    /\ clientObjs' = SetClientState(clientObjs, calls[c].client, "disconnected")
    /\ clients' = ReleaseClient(clients, n)
    /\ serverStatuses' = ss1
    /\ transitions' = Changes(serverStatuses, ss1)
    /\ events' = [events EXCEPT ![c] = StopEvents(@, n)]
    /\ calls' = IF calls[c].op = "restart"
                THEN [calls EXCEPT ![c].pc = "waiting"]
                ELSE [calls EXCEPT ![c].pc = "done", ![c].result = "resolved"]
    /\ UNCHANGED <<pxVars, extVars, healthEvents>>

\* lines 133-149: disconnect rejected; the catch block (restartServer rethrows, 171-174)
DisconnectRejected(c) ==
    LET n == calls[c].name
        ss1 == StopCatchStatus(serverStatuses, n) IN
    /\ calls[c].pc = "disconnecting"
    /\ serverStatuses' = ss1
    /\ transitions' = Changes(serverStatuses, ss1)
    /\ calls' = [calls EXCEPT ![c].pc = "done", ![c].result = "rejected"]
    /\ UNCHANGED <<pxVars, extVars, clients, clientObjs, events, healthEvents>>

\* ---------------------------------------------------------- restartServer
\* lines 155-165: stop only when a client is tracked, then the settling delay
\* the restart that never stops first
NeedsStop_Never(cs, n) == FALSE

\* line 160
NeedsStop(cs, n) == n \in DOMAIN cs

RestartServer(c, n) ==
    /\ CanIssue(c)
    /\ IF NeedsStop(clients, n)
       THEN StopBegin(c, n, "restart")
       ELSE /\ calls' = [calls EXCEPT ![c] = [op |-> "restart", name |-> n, pc |-> "waiting",
                                              client |-> 0, result |-> "none"]]
            /\ UNCHANGED <<pxVars, extVars, clients, serverStatuses, clientObjs, events, transitions, healthEvents>>

\* line 168: the delay elapsed, startServer is called
RestartDelayElapsed(c) ==
    /\ calls[c].pc = "waiting"
    /\ StartBegin(c, calls[c].name, "restart")

\* ---------------------------------------------------------------- callTool
\* line 249
ToolStartedEvents(ev, n) == EmitEvent(ev, "tool_call_started", n)

\* line 255
ToolCompletedEvents(ev, n) == EmitEvent(ev, "tool_call_completed", n)

\* the catch block of callTool without its event
ToolFailedEvents_Silent(ev, n) == ev

\* line 260
ToolFailedEvents(ev, n) == EmitEvent(ev, "tool_call_failed", n)

\* line 233
HasClient(cs, n) == n \in DOMAIN cs

\* tool_call_started emitted ahead of the client check
NotRunningEvents_Started(ev, n) == EmitEvent(ev, "tool_call_started", n)

\* lines 233-239: the throw comes before any emitEvent
NotRunningEvents(ev, n) == ev

\* lines 232-252: without a client the call throws at once; with one it emits
\* tool_call_started and awaits client.callTool
CallTool(c, n) ==
    /\ CanIssue(c)
    /\ IF HasClient(clients, n)
       THEN /\ events' = [events EXCEPT ![c] = ToolStartedEvents(@, n)]
            /\ calls' = [calls EXCEPT ![c] = [op |-> "callTool", name |-> n, pc |-> "calling",
                                              client |-> clients[n], result |-> "none"]]
       ELSE /\ events' = [events EXCEPT ![c] = NotRunningEvents(@, n)]
            /\ calls' = [calls EXCEPT ![c] = [op |-> "callTool", name |-> n, pc |-> "done",
                                              client |-> 0, result |-> "not_running"]]
    /\ UNCHANGED <<pxVars, extVars, clients, serverStatuses, clientObjs, transitions, healthEvents>>

\* lines 252-257
ToolResolved(c) ==
    /\ calls[c].pc = "calling"
    /\ events' = [events EXCEPT ![c] = ToolCompletedEvents(@, calls[c].name)]
    /\ calls' = [calls EXCEPT ![c].pc = "done", ![c].result = "resolved"]
    /\ UNCHANGED <<pxVars, extVars, clients, serverStatuses, clientObjs, transitions, healthEvents>>

\* a catch block of callTool that marks the server as failed
ToolFailedStatus_Error(ss, n) ==
    UpdateServerStatus(ss, n, [name |-> n, status |-> "error", error |-> "tool call failed"])

\* lines 258-262: the catch block emits the event and rethrows; it calls
\* neither updateServerStatus nor clients.delete
ToolFailedStatus(ss, n) == ss

\* lines 258-262
ToolRejected(c) ==
    /\ calls[c].pc = "calling"
    /\ events' = [events EXCEPT ![c] = ToolFailedEvents(@, calls[c].name)]
    /\ serverStatuses' = ToolFailedStatus(serverStatuses, calls[c].name)
    /\ calls' = [calls EXCEPT ![c].pc = "done", ![c].result = "rejected"]
    /\ UNCHANGED <<pxVars, extVars, clients, clientObjs, transitions, healthEvents>>

\* ------------------------------------------------------------ health check
\* lines 330-334
LostStatus(ss, n) ==
    UpdateServerStatus(ss, n, [name |-> n, status |-> "error", error |-> "Connection lost"])

\* the health check without its event
LostEvents_None(ev, n) == ev

\* line 336
LostEvents(ev, n) == EmitEvent(ev, "server_error", n)

\* lines 323-341, run by the interval of lines 347-351 for each tracked name
CheckServerHealth(n) ==
    LET ss1 == LostStatus(serverStatuses, n) IN
    /\ n \in DOMAIN clients
    /\ IF ~IsConnected(clientObjs[clients[n]])
       THEN /\ serverStatuses' = ss1
            /\ transitions' = Changes(serverStatuses, ss1)
            /\ healthEvents' = LostEvents(<<>>, n)
       ELSE /\ healthEvents' = <<>>
            /\ UNCHANGED <<serverStatuses, transitions>>
    /\ UNCHANGED <<pxVars, extVars, clients, clientObjs, calls, events>>

\* the server process of a connected client dies
ConnectionLost(k) ==
    /\ k \in DOMAIN clientObjs
    /\ clientObjs[k].state = "connected"
    /\ clientObjs' = SetClientState(clientObjs, k, "lost")
    /\ UNCHANGED <<pxVars, extVars, clients, serverStatuses, calls, events, transitions, healthEvents>>

\* ====================================================== the HTTP proxy
\* Stdout data is a sequence of tokens: a whole JSON-RPC response ("resp",
\* with its id), a notification ("note": jsonrpc, no id), another JSON object
\* ("obj": no jsonrpc, with or without an id), the two halves of a response
\* ("head", with its id, and "tail"), text that is not JSON ("junk") and the
\* newline ("nl").
Tok(k, id) == [k |-> k, id |-> id]

\* The server process writes line by line: a record and its newline, or the
\* first half of a response (the rest follows in a later write).  It answers
\* only requests it was sent.
Writes(sent) ==
    {<<Tok("resp", i), Tok("nl", 0)>> : i \in sent}
        \cup {<<Tok("obj", i), Tok("nl", 0)>> : i \in sent \cup {0}}
        \cup {<<Tok("head", i)>> : i \in sent}
        \cup {<<Tok("tail", 0), Tok("nl", 0)>>, <<Tok("note", 0), Tok("nl", 0)>>,
              <<Tok("junk", 0), Tok("nl", 0)>>}

RECURSIVE Flatten(_)
Flatten(ws) == IF ws = <<>> THEN <<>> ELSE Head(ws) \o Flatten(Tail(ws))

\* one 'data' event carries one or more writes
Chunks(sent, maxWrites) ==
    UNION {{ws \in [1..k -> Writes(sent)] : TRUE} : k \in 1..maxWrites}

Range(seq) == {seq[i] : i \in 1..Len(seq)}

\* responseData.split('\n'), line 342
RECURSIVE SplitLines(_)
SplitLines(data) ==
    IF \A i \in 1..Len(data) : data[i].k # "nl"
    THEN <<data>>
    ELSE LET i == CHOOSE j \in 1..Len(data) :
                      /\ data[j].k = "nl"
                      /\ \A m \in 1..(j - 1) : data[m].k # "nl"
         IN <<SubSeq(data, 1, i - 1)>> \o SplitLines(SubSeq(data, i + 1, Len(data)))

ParseError == Tok("error", 0)

NoResponse == Tok("none", 0)

\* JSON.parse(line.trim()), line 345: the value, or ParseError when it throws
JsonParse(line) ==
    IF Len(line) = 1 /\ line[1].k \in {"resp", "note", "obj"} THEN line[1]
    ELSE IF Len(line) = 2 /\ line[1].k = "head" /\ line[2].k = "tail"
         THEN Tok("resp", line[1].id)
         ELSE ParseError

\* response.jsonrpc is truthy
HasJsonrpc(response) == response.k \in {"resp", "note"}

\* line 346
Matches(response, messageId) == response.id = messageId \/ HasJsonrpc(response)

\* lines 340-358: the lines in order; a blank line is skipped, the first match
\* is returned, and the exception of a line that does not parse ends the loop
RECURSIVE ScanLines(_, _)
ScanLines(lines, messageId) ==
    IF lines = <<>> THEN NoResponse
    ELSE IF Head(lines) = <<>> THEN ScanLines(Tail(lines), messageId)
    ELSE LET response == JsonParse(Head(lines)) IN
         IF response = ParseError THEN NoResponse
         ELSE IF Matches(response, messageId) THEN response
         ELSE ScanLines(Tail(lines), messageId)

\* resolve / reject of the promise of line 329: only the first call settles it
Settle(req, state, result) ==
    IF req.state = "pending"
    THEN [req EXCEPT !.state = state, !.result = result, !.settles = @ + 1]
    ELSE [req EXCEPT !.settles = @ + 1]

\* lines 336-359, responseHandler(data) of one request
ResponseHandler(req, chunk) ==
    LET data == req.responseData \o chunk
        found == ScanLines(SplitLines(data), req.id)
        req1 == [req EXCEPT !.responseData = data]
    IN IF found # NoResponse THEN Settle(req1, "resolved", found) ELSE req1

\* the handlers that reached lines 347-348 on this chunk
Matched(reqs, ls, chunk) ==
    {r \in ls : ScanLines(SplitLines(reqs[r].responseData \o chunk), reqs[r].id) # NoResponse}

\* line 347
HandlerOff(ls, done) == ls \ done

\* line 348
ClearTimeout(ts, done) == ts \ done

\* the timeout without stdout.off
TimeoutOff_Kept(ls, r) == ls

\* line 363
TimeoutOff(ls, r) == ls \ {r}

\* Date.now(), line 236: 1 for the first request; afterwards the value it
\* had for the previous request (the same millisecond) or a later one
NowValues(stdin) ==
    IF stdin = <<>> THEN {1} ELSE {stdin[Len(stdin)], stdin[Len(stdin)] + 1}

\* handleMCPCall lines 234-245 and sendMCPMessage lines 329-372: the message
\* gets the id Date.now(), the handler and the timer are set, the message is
\* written to stdin
HandleMCPCall(r, now) ==
    /\ pxReqs[r].state = "idle"
    /\ \A q \in Reqs : q < r => pxReqs[q].state # "idle"
    /\ pxReqs' = [pxReqs EXCEPT ![r] = [state |-> "pending", id |-> now,
                                        responseData |-> <<>>, result |-> NoResponse,
                                        settles |-> 0]]
    /\ pxListeners' = pxListeners \cup {r}
    /\ pxTimers' = pxTimers \cup {r}
    /\ pxStdin' = Append(pxStdin, now)
    /\ UNCHANGED <<mgrVars, extVars, pxOut, pxLate>>

\* the timed-out requests whose response is in this chunk
LateFor(reqs, chunk) ==
    {r \in Reqs : reqs[r].state = "rejected" /\ Tok("resp", reqs[r].id) \in Range(chunk)}

\* a 'data' event of the process's stdout: every registered handler runs
StdoutData(ws) ==
    LET chunk == Flatten(ws) IN
    /\ pxOut + Len(ws) <= MaxOut
    /\ pxOut' = pxOut + Len(ws)
    /\ pxLate' = pxLate \cup LateFor(pxReqs, chunk)
    /\ pxReqs' = [r \in Reqs |-> IF r \in pxListeners
                                 THEN ResponseHandler(pxReqs[r], chunk)
                                 ELSE pxReqs[r]]
    /\ pxListeners' = HandlerOff(pxListeners, Matched(pxReqs, pxListeners, chunk))
    /\ pxTimers' = ClearTimeout(pxTimers, Matched(pxReqs, pxListeners, chunk))
    /\ UNCHANGED <<mgrVars, extVars, pxStdin>>

\* lines 362-366: the timer of one request fires
Timeout(r) ==
    /\ r \in pxTimers
    /\ pxTimers' = pxTimers \ {r}
    /\ pxListeners' = TimeoutOff(pxListeners, r)
    /\ pxReqs' = [pxReqs EXCEPT ![r] = Settle(@, "rejected", Tok("timeout", 0))]
    /\ UNCHANGED <<mgrVars, extVars, pxStdin, pxOut, pxLate>>

NextProxy ==
    \/ \E r \in Reqs, now \in NowValues(pxStdin) : HandleMCPCall(r, now)
    \/ \E ws \in Chunks(Range(pxStdin), MaxChunk) : StdoutData(ws)
    \/ \E r \in Reqs : Timeout(r)

SpecProxy == Init /\ [][NextProxy]_vars

SpecProxyFair == SpecProxy /\ \A r \in Reqs : WF_vars(Timeout(r))

Next ==
    \/ \E c \in Calls, n \in ServerNames : StartServer(c, n)
    \/ \E c \in Calls : ConnectResolved(c)
    \/ \E c \in Calls, nTools \in 0..MaxTools : ListResolved(c, nTools)
    \/ \E c \in Calls : ConnectRejected(c)
    \/ \E c \in Calls, n \in ServerNames : StopServer(c, n)
    \/ \E c \in Calls : DisconnectResolved(c)
    \/ \E c \in Calls : DisconnectRejected(c)
    \/ \E c \in Calls, n \in ServerNames : RestartServer(c, n)
    \/ \E c \in Calls : RestartDelayElapsed(c)
    \/ \E c \in Calls, n \in ServerNames : CallTool(c, n)
    \/ \E c \in Calls : ToolResolved(c)
    \/ \E c \in Calls : ToolRejected(c)
    \/ \E n \in ServerNames : CheckServerHealth(n)
    \/ \E k \in 1..MaxCalls : ConnectionLost(k)

Spec == Init /\ [][Next]_vars

\* ===================================================== the tool registry
MaxDesc == 2           \* distinct descriptions a tool is registered with

\* server and tool names are arbitrary strings; these are chosen so that two
\* different (serverName, name) pairs have the same text around the separator
RegServerNames == {"s", "s:t"}

RegToolNames == {"t", "t:t"}

\* the tools a caller registers; serverName is optional (types.ts, line 66)
RegTools ==
    {[name |-> n, description |-> d, serverName |-> sn] :
        n \in RegToolNames, d \in 1..MaxDesc, sn \in RegServerNames}
        \cup {[name |-> n, description |-> d] : n \in RegToolNames, d \in 1..MaxDesc}

\* `${serverName}:${toolName}`, lines 17, 48 and 134
ToolKey(sn, n) == sn \o ":" \o n

\* ${tool.serverName} in the template of line 17
ServerNameText(tool) == IF "serverName" \in DOMAIN tool THEN tool.serverName ELSE "undefined"

\* tool.serverName || 'unknown', line 21
GroupOf(tool) ==
    IF "serverName" \in DOMAIN tool /\ tool.serverName # "" THEN tool.serverName ELSE "unknown"

\* this.serverTools.get(serverName) || [], lines 22, 63 and 130
GetServerTools(st, sn) == IF sn \in DOMAIN st THEN st[sn] ELSE <<>>

\* findIndex(t => t.name === tool.name), line 25; 0 when there is none
FindIndex(list, n) ==
    IF \E i \in 1..Len(list) : list[i].name = n
    THEN CHOOSE i \in 1..Len(list) :
             /\ list[i].name = n
             /\ \A j \in 1..(i - 1) : list[j].name # n
    ELSE 0

\* lines 17-18
RegisterToolFlat(t, tool) == MapSet(t, ToolKey(ServerNameText(tool), tool.name), tool)

\* lines 21-32
RegisterToolGrouped(st, tool) ==
    LET list == GetServerTools(st, GroupOf(tool))
        existingIndex == FindIndex(list, tool.name)
    IN MapSet(st, GroupOf(tool),
              IF existingIndex > 0 THEN [list EXCEPT ![existingIndex] = tool]
              ELSE Append(list, tool))

\* what the claim calls the most recently registered tool of a pair
NoteRegistered(rg, tool) ==
    IF "serverName" \in DOMAIN tool THEN MapSet(rg, <<tool.serverName, tool.name>>, tool) ELSE rg

\* registerTools, lines 40-42: registerTool for each tool in order
RECURSIVE RegisterAll(_, _)
RegisterAll(reg, ts) ==
    IF ts = <<>> THEN reg
    ELSE RegisterAll([tools |-> RegisterToolFlat(reg.tools, Head(ts)),
                      serverTools |-> RegisterToolGrouped(reg.serverTools, Head(ts)),
                      registered |-> NoteRegistered(reg.registered, Head(ts))],
                     Tail(ts))

\* registerTools(ts), lines 40-42; NextRegistry registers one tool, or two
\* tools of one server in one call
RegisterTools(ts) ==
    LET reg == RegisterAll([tools |-> tools, serverTools |-> serverTools,
                            registered |-> registered], ts) IN
    /\ tools' = reg.tools
    /\ serverTools' = reg.serverTools
    /\ registered' = reg.registered
    /\ returned' = Void
    /\ UNCHANGED <<mgrVars, pxVars, evVars, aggVars, moreVars>>

\* registerTool(tool), lines 16-35
RegisterTool(tool) == RegisterTools(<<tool>>)

NoTool == [undefined |-> TRUE]

\* getTool, lines 47-50
GetTool(t, sn, n) == IF ToolKey(sn, n) \in DOMAIN t THEN t[ToolKey(sn, n)] ELSE NoTool

\* getAllTools, lines 55-57
GetAllTools(t) == {t[k] : k \in DOMAIN t}

\* lines 133-136: the keys deleted from the flat map
ClearedKeys(st, sn) ==
    {ToolKey(sn, GetServerTools(st, sn)[i].name) : i \in 1..Len(GetServerTools(st, sn))}

\* clearServerTools(serverName), lines 129-142
ClearServerTools(sn) ==
    /\ tools' = [k \in DOMAIN tools \ ClearedKeys(serverTools, sn) |-> tools[k]]
    /\ serverTools' = MapDelete(serverTools, sn)
    /\ registered' = [pr \in {q \in DOMAIN registered : q[1] # sn} |-> registered[pr]]
    /\ returned' = Void
    /\ UNCHANGED <<mgrVars, pxVars, evVars, aggVars, moreVars>>

\* clearAllTools(), lines 147-151
ClearAllTools ==
    /\ tools' = <<>>
    /\ serverTools' = <<>>
    /\ registered' = <<>>
    /\ returned' = Void
    /\ UNCHANGED <<mgrVars, pxVars, evVars, aggVars, moreVars>>

NextRegistry ==
    \/ \E tool \in RegTools : RegisterTool(tool)
    \/ \E t1 \in RegTools, t2 \in RegTools :
           /\ DOMAIN t1 = DOMAIN t2
           /\ GroupOf(t1) = GroupOf(t2)
           /\ RegisterTools(<<t1, t2>>)
    \/ \E sn \in RegServerNames \cup {"unknown"} : ClearServerTools(sn)
    \/ ClearAllTools

SpecRegistry == Init /\ [][NextRegistry]_vars

\* ===================================================== event subscription
MaxRegs == 2           \* listeners registered at one time, over all channels

\* a listener is a function and what it does when called: it returns, it
\* throws, or it unsubscribes itself from the channel it is called on
ListenerFns == {"f", "g"}

Listeners == [fn : ListenerFns, does : {"returns", "throws", "removes"}]

\* the channels listeners register on; events are emitted for alpha and beta
Channels == {"*", "alpha"}

EventServers == {"alpha", "beta"}

\* this.eventListeners.get(serverName) || [], lines 379, 389, 403 and 412
GetListeners(el, ch) == IF ch \in DOMAIN el THEN el[ch] ELSE <<>>

Registrations(el) ==
    LET RECURSIVE Sum(_)
        Sum(chs) == IF chs = {} THEN 0
                    ELSE LET ch == CHOOSE x \in chs : TRUE
                         IN Len(el[ch]) + Sum(chs \ {ch})
    IN Sum(DOMAIN el)

\* lines 403-405
AddListener(el, ch, l) == MapSet(el, ch, Append(GetListeners(el, ch), l))

\* listeners.indexOf(listener), line 413; 0 when it is not there
IndexOf(list, l) ==
    IF \E i \in 1..Len(list) : list[i] = l
    THEN CHOOSE i \in 1..Len(list) : list[i] = l /\ \A j \in 1..(i - 1) : list[j] # l
    ELSE 0

\* listeners.splice(index, 1), line 415
Splice(list, i) == SubSeq(list, 1, i - 1) \o SubSeq(list, i + 1, Len(list))

\* lines 412-417
RemoveListener(el, ch, l) ==
    LET index == IndexOf(GetListeners(el, ch), l) IN
    IF index > 0 THEN MapSet(el, ch, Splice(GetListeners(el, ch), index)) ELSE el

\* listener(event) inside try/catch, lines 381-385 and 391-395: what the call
\* does to the listener lists; an exception is caught and logged
CallListener(el, ch, l) == IF l.does = "removes" THEN RemoveListener(el, ch, l) ELSE el

\* forEach over the listener array of one channel, lines 380 and 390: the
\* indices below the length the array had at the start are visited in order and
\* an index the array no longer has is skipped; the array is the one stored in
\* the map, so a removal during the loop shifts the later listeners down
RECURSIVE ForEach(_, _, _, _, _)
ForEach(el, ch, i, len, log) ==
    IF i > len THEN [el |-> el, log |-> log]
    ELSE IF i > Len(GetListeners(el, ch)) THEN ForEach(el, ch, i + 1, len, log)
    ELSE LET l == GetListeners(el, ch)[i]
         IN ForEach(CallListener(el, ch, l), ch, i + 1, len,
                    Append(log, [channel |-> ch, listener |-> l]))

\* lines 378-396: the wildcard listeners, then the listeners of the server
Deliver(el, n) ==
    LET global == ForEach(el, "*", 1, Len(GetListeners(el, "*")), <<>>)
    IN ForEach(global.el, n, 1, Len(GetListeners(global.el, n)), global.log)

\* addEventListener(serverName, listener), lines 402-406
AddEventListener(ch, l) ==
    /\ Registrations(eventListeners) < MaxRegs
    /\ eventListeners' = AddListener(eventListeners, ch, l)
    /\ UNCHANGED <<mgrVars, pxVars, moreVars, regVars, aggVars, emitted, delivered>>

\* removeEventListener(serverName, listener), lines 411-418
RemoveEventListener(ch, l) ==
    /\ eventListeners' = RemoveListener(eventListeners, ch, l)
    /\ UNCHANGED <<mgrVars, pxVars, moreVars, regVars, aggVars, emitted, delivered>>

\* emitEvent(type, serverName, data), lines 370-397
EmitEventFor(n) ==
    /\ emitted' = [serverName |-> n, listeners |-> eventListeners]
    /\ delivered' = Deliver(eventListeners, n).log
    /\ eventListeners' = Deliver(eventListeners, n).el
    /\ UNCHANGED <<mgrVars, pxVars, moreVars, regVars, aggVars>>

NextEvents ==
    \/ \E ch \in Channels, l \in Listeners : AddEventListener(ch, l)
    \/ \E ch \in Channels, l \in Listeners : RemoveEventListener(ch, l)
    \/ \E n \in EventServers : EmitEventFor(n)

SpecEvents == Init /\ [][NextEvents]_vars

\* =========================================== the manager and the registry
\* the tools a server lists, as the registry's callers hold them
ToolList(n, k) ==
    [i \in 1..k |-> [name |-> "tool" \o ToString(i), description |-> 1, serverName |-> n]]

\* the manager's start and stop paths never call the registry; its other
\* callers (the application, through MCP.getToolRegistry()) register the tools
\* a server listed and clear the tools of a server
NextTools ==
    \/ \E c \in Calls, n \in ServerNames : StartServer(c, n)
    \/ \E c \in Calls : ConnectResolved(c)
    \/ \E c \in Calls, nTools \in 0..MaxTools : ListResolved(c, nTools)
    \/ \E c \in Calls : ConnectRejected(c)
    \/ \E c \in Calls, n \in ServerNames : StopServer(c, n)
    \/ \E c \in Calls : DisconnectResolved(c)
    \/ \E c \in Calls : DisconnectRejected(c)
    \/ \E n \in ServerNames, k \in 1..MaxTools : RegisterTools(ToolList(n, k))
    \/ \E n \in ServerNames : ClearServerTools(n)

SpecTools == Init /\ [][NextTools]_vars

\* ====================================================== the status query
\* the names queried: one the manager operates on and one it never saw
QueryNames == ServerNames \cup {"beta"}

\* getServerStatus that stores the default it returns
StatusesAfterQuery_Stored(ss, n) == MapSet(ss, n, GetServerStatus(ss, n))

\* line 181: the status map is read, never written
StatusesAfterQuery(ss, n) == ss

\* getAllServerStatuses(), lines 190-192
GetAllServerStatuses(ss) == {ss[n] : n \in DOMAIN ss}

\* getServerStatus(serverName), lines 180-185
QueryServerStatus(n) ==
    /\ queried' = GetServerStatus(serverStatuses, n)
    /\ serverStatuses' = StatusesAfterQuery(serverStatuses, n)
    /\ UNCHANGED <<pxVars, moreVars, regVars, evVars, stopAll, listAll,
                   clients, clientObjs, calls, events, healthEvents, transitions>>

NextQuery ==
    \/ \E c \in Calls, n \in ServerNames : StartServer(c, n)
    \/ \E c \in Calls : ConnectResolved(c)
    \/ \E c \in Calls, nTools \in 0..MaxTools : ListResolved(c, nTools)
    \/ \E c \in Calls : ConnectRejected(c)
    \/ \E n \in QueryNames : QueryServerStatus(n)

SpecQuery == Init /\ [][NextQuery]_vars

\* ================================================ the aggregate operations
FleetNames == {"alpha", "beta"}

\* the synchronous prefix of stopServer (lines 108-119) run by the map callback
\* of line 303 for every tracked name
RECURSIVE StoppingAll(_, _)
StoppingAll(ss, names) ==
    IF names = {} THEN ss
    ELSE LET n == CHOOSE x \in names : TRUE
         IN StoppingAll(StoppingStatus(ss, n), names \ {n})

\* lines 309-317: Promise.all settles when no stop is awaited any more
StopAllSettled(sa) ==
    IF DOMAIN sa.awaiting = {} /\ sa.pc = "awaiting"
    THEN [sa EXCEPT !.pc = "done", !.result = "resolved"]
    ELSE sa

\* a stop failure that reaches Promise.all
ChildFailure_Propagated(sa, n) ==
    [sa EXCEPT !.failed = @ \cup {n}, !.awaiting = MapDelete(@, n),
               !.pc = "done", !.result = "rejected"]

\* lines 304-306: the rejection of one stopServer is caught and logged
ChildFailure(sa, n) ==
    StopAllSettled([sa EXCEPT !.failed = @ \cup {n}, !.awaiting = MapDelete(@, n)])

\* stopAllServers(), lines 300-309: stopServer is called for every key of the
\* client map; each sets 'stopping' and awaits the disconnect of its client.
\* The start requests made so far are noted in issued.
StopAllServers ==
    LET ss1 == StoppingAll(serverStatuses, DOMAIN clients) IN
    /\ stopAll.pc = "idle"
    /\ serverStatuses' = ss1
    /\ transitions' = Changes(serverStatuses, ss1)
    /\ stopAll' = StopAllSettled([pc |-> "awaiting", names |-> DOMAIN clients,
                                  awaiting |-> clients, stopped |-> {}, failed |-> {},
                                  events |-> <<>>, result |-> "none",
                                  issued |-> {c \in Calls : calls[c].pc # "idle"}])
    /\ UNCHANGED <<pxVars, moreVars, regVars, evVars, listAll, queried,
                   clients, clientObjs, calls, events, healthEvents>>

\* lines 120-132 of one of the stops: its disconnect resolved
StopAllDisconnectResolved(n) ==
    LET ss1 == StoppedStatus(serverStatuses, n) IN
    /\ stopAll.pc = "awaiting"
    /\ n \in DOMAIN stopAll.awaiting
    /\ clientObjs' = SetClientState(clientObjs, stopAll.awaiting[n], "disconnected")
    /\ clients' = ReleaseClient(clients, n)
    /\ serverStatuses' = ss1
    /\ transitions' = Changes(serverStatuses, ss1)
    /\ stopAll' = StopAllSettled([stopAll EXCEPT !.stopped = @ \cup {n},
                                                 !.awaiting = MapDelete(@, n),
                                                 !.events = StopEvents(@, n)])
    /\ UNCHANGED <<pxVars, moreVars, regVars, evVars, listAll, queried, calls, events, healthEvents>>

\* lines 133-149 of one of the stops: its disconnect rejected
StopAllDisconnectRejected(n) ==
    LET ss1 == StopCatchStatus(serverStatuses, n) IN
    /\ stopAll.pc = "awaiting"
    /\ n \in DOMAIN stopAll.awaiting
    /\ serverStatuses' = ss1
    /\ transitions' = Changes(serverStatuses, ss1)
    /\ stopAll' = ChildFailure(stopAll, n)
    /\ UNCHANGED <<pxVars, moreVars, regVars, evVars, listAll, queried,
                   clients, clientObjs, calls, events, healthEvents>>

\* the entries the iterator of line 216 can yield next: the Map is iterated
\* live, so an entry added or replaced while listTools was awaited can be
\* yielded, and one deleted before its turn is not
Unasked(la, cs) == {n \in DOMAIN cs : cs[n] \notin la.asked}

\* the entries it must still yield: the names not yet visited
MustAsk(la, cs) == {n \in DOMAIN cs : n \notin la.visited}

\* the loop of line 216 goes to the entry n, or ends (line 225)
ListAllStep(la, cs, n) ==
    IF n = "none"
    THEN [la EXCEPT !.pc = "done", !.asking = "none", !.result = "resolved"]
    ELSE [la EXCEPT !.pc = "asking", !.asking = n, !.asked = @ \cup {cs[n]},
                    !.visited = @ \cup {n}]

NextEntries(la, cs) ==
    Unasked(la, cs) \cup (IF MustAsk(la, cs) = {} THEN {"none"} ELSE {})

\* the catch of listAllTools rethrowing
ListFailure_Thrown(la) == [la EXCEPT !.pc = "done", !.asking = "none", !.result = "rejected"]

\* lines 220-222: the failure is logged
ListFailure(la) == la

\* line 219
PushTools(allTools, ts) == allTools \o ts

\* listAllTools(), lines 213-218
ListAllTools(n) ==
    /\ listAll.pc = "idle"
    /\ n \in NextEntries(listAll, clients)
    /\ listAll' = ListAllStep([listAll EXCEPT !.allTools = <<>>], clients, n)
    /\ UNCHANGED <<mgrVars, pxVars, moreVars, regVars, evVars, stopAll, queried>>

\* lines 218-219: client.listTools() resolved with k tools; the loop goes on
ListAllResolved(k, n) ==
    LET ts == ToolList(listAll.asking, k)
        la1 == [listAll EXCEPT !.allTools = PushTools(@, ts),
                               !.answers = Append(@, [name |-> listAll.asking, ok |-> TRUE,
                                                      tools |-> ts])]
    IN /\ listAll.pc = "asking"
       /\ n \in NextEntries(la1, clients)
       /\ listAll' = ListAllStep(la1, clients, n)
       /\ UNCHANGED <<mgrVars, pxVars, moreVars, regVars, evVars, stopAll, queried>>

\* lines 220-222: client.listTools() rejected; the loop goes on
ListAllRejected(n) ==
    LET la1 == ListFailure([listAll EXCEPT !.answers =
                               Append(@, [name |-> listAll.asking, ok |-> FALSE,
                                          tools |-> <<>>])])
    IN /\ listAll.pc = "asking"
       /\ IF la1.pc = "done"
          THEN listAll' = la1
          ELSE /\ n \in NextEntries(la1, clients)
               /\ listAll' = ListAllStep(la1, clients, n)
       /\ UNCHANGED <<mgrVars, pxVars, moreVars, regVars, evVars, stopAll, queried>>

NextStopAll ==
    \/ \E c \in Calls, n \in FleetNames : StartServer(c, n)
    \/ \E c \in Calls : ConnectResolved(c)
    \/ \E c \in Calls, nTools \in 0..MaxTools : ListResolved(c, nTools)
    \/ \E c \in Calls : ConnectRejected(c)
    \/ StopAllServers
    \/ \E n \in FleetNames : StopAllDisconnectResolved(n)
    \/ \E n \in FleetNames : StopAllDisconnectRejected(n)

SpecStopAll == Init /\ [][NextStopAll]_vars

NextListAll ==
    \/ \E c \in Calls, n \in FleetNames : StartServer(c, n)
    \/ \E c \in Calls : ConnectResolved(c)
    \/ \E c \in Calls, nTools \in 0..MaxTools : ListResolved(c, nTools)
    \/ \E c \in Calls : ConnectRejected(c)
    \/ \E n \in FleetNames \cup {"none"} : ListAllTools(n)
    \/ \E k \in 0..MaxTools, n \in FleetNames \cup {"none"} : ListAllResolved(k, n)
    \/ \E n \in FleetNames \cup {"none"} : ListAllRejected(n)

SpecListAll == Init /\ [][NextListAll]_vars

\* ============================================== the registry's read calls
MaxCatalog == 2        \* tools the flat map holds at one time in SpecCatalog

\* String.prototype.toLowerCase on one character of a tool name or a query
LowerOf(c) ==
    CASE c = "A" -> "a" [] c = "B" -> "b" [] c = "C" -> "c" [] c = "D" -> "d"
      [] c = "E" -> "e" [] c = "F" -> "f" [] c = "G" -> "g" [] c = "H" -> "h"
      [] c = "I" -> "i" [] c = "J" -> "j" [] c = "K" -> "k" [] c = "L" -> "l"
      [] c = "M" -> "m" [] c = "N" -> "n" [] c = "O" -> "o" [] c = "P" -> "p"
      [] c = "Q" -> "q" [] c = "R" -> "r" [] c = "S" -> "s" [] c = "T" -> "t"
      [] c = "U" -> "u" [] c = "V" -> "v" [] c = "W" -> "w" [] c = "X" -> "x"
      [] c = "Y" -> "y" [] c = "Z" -> "z"
      [] OTHER -> c

\* String.prototype.toLowerCase, lines 70, 72, 73 and 101
RECURSIVE ToLowerCase(_)
ToLowerCase(s) == IF s = "" THEN "" ELSE LowerOf(Head(s)) \o ToLowerCase(Tail(s))

\* String.prototype.includes, lines 72, 73 and 103-119
Includes(s, q) == \E i \in 0..(Len(s) - Len(q)) : SubSeq(s, i + 1, i + Len(q)) = q

\* const queryLower = query.toLowerCase(), line 70
QueryLower_Raw(q) == q

QueryLower(q) == ToLowerCase(q)

\* the filter of lines 71-74; an absent description is falsy
SearchTools(t, q) ==
    {tool \in GetAllTools(t) :
        \/ Includes(ToLowerCase(tool.name), QueryLower(q))
        \/ /\ "description" \in DOMAIN tool
           /\ tool.description # ""
           /\ Includes(ToLowerCase(tool.description), QueryLower(q))}

\* const name = toolName.toLowerCase(), line 101
CategoryName_Raw(toolName) == toolName

CategoryName(toolName) == ToLowerCase(toolName)

\* categorizeToolByName, lines 100-124
CategorizeToolByName(toolName) ==
    LET name == CategoryName(toolName) IN
    IF \/ Includes(name, "file") \/ Includes(name, "dir") \/ Includes(name, "path")
       \/ Includes(name, "read") \/ Includes(name, "write") \/ Includes(name, "list")
    THEN "filesystem"
    ELSE IF \/ Includes(name, "http") \/ Includes(name, "fetch") \/ Includes(name, "request")
            \/ Includes(name, "url") \/ Includes(name, "api")
    THEN "network"
    ELSE IF \/ Includes(name, "json") \/ Includes(name, "csv") \/ Includes(name, "data")
            \/ Includes(name, "parse") \/ Includes(name, "format")
    THEN "data"
    ELSE IF \/ Includes(name, "system") \/ Includes(name, "process") \/ Includes(name, "env")
            \/ Includes(name, "exec") \/ Includes(name, "command")
    THEN "system"
    ELSE "other"

\* the keys of the categories object, lines 81-87
CategoryNames == {"filesystem", "network", "data", "system", "other"}

\* getToolsByCategory, lines 80-95; each bucket as the set of tools pushed to it
GetToolsByCategory(t) ==
    [c \in CategoryNames |-> {tool \in GetAllTools(t) : CategorizeToolByName(tool.name) = c}]

\* totalTools: this.tools.size, line 174
TotalTools_Summed(t, st) ==
    LET RECURSIVE Sum(_)
        Sum(S) == IF S = {} THEN 0
                  ELSE LET sn == CHOOSE x \in S : TRUE IN Len(st[sn]) + Sum(S \ {sn})
    IN Sum(DOMAIN st)

TotalTools(t, st) == Cardinality(DOMAIN t)

\* getStats, lines 156-179
GetStats(t, st) ==
    [totalTools |-> TotalTools(t, st),
     serverCount |-> Cardinality(DOMAIN st),
     toolsByServer |-> [sn \in DOMAIN st |-> Len(st[sn])],
     toolsByCategory |-> [c \in CategoryNames |-> Cardinality(GetToolsByCategory(t)[c])]]

\* the tools of SpecCatalog: the five names of the categorisation scenario, a
\* name in capitals that holds keywords of two groups, a name that holds a
\* keyword across its syllables, with and without description and serverName
CatToolNames ==
    {"file-read", "http-get", "json-parse", "system-info", "mystery-tool",
     "Fetch_DATA", "capital"}

CatDescriptions == {"Get File"}

CatServerNames == {"weather-server"}

CatTools ==
    {[name |-> n, description |-> d, serverName |-> sn] :
        n \in CatToolNames, d \in CatDescriptions, sn \in CatServerNames}
        \cup {[name |-> n, serverName |-> sn] : n \in CatToolNames, sn \in CatServerNames}
        \cup {[name |-> "capital", description |-> d] : d \in CatDescriptions}
        \cup {[name |-> "mystery-tool"]}

CatQueries == {"", "http", "HTTP", "Get", "zzz"}

\* a read call of the registry: the registry is left alone and the value is
\* handed to the caller
Return(call, arg, value) ==
    /\ returned' = [call |-> call, arg |-> arg, value |-> value]
    /\ UNCHANGED <<tools, serverTools, registered>>
    /\ UNCHANGED <<mgrVars, pxVars, evVars, aggVars, moreVars>>

CallSearchTools(q) == Return("searchTools", q, [items |-> SearchTools(tools, q)])

CallGetToolsByCategory == Return("getToolsByCategory", "", GetToolsByCategory(tools))

CallGetStats == Return("getStats", "", GetStats(tools, serverTools))

NextCatalog ==
    \/ \E tool \in CatTools :
           /\ \/ Cardinality(DOMAIN tools) < MaxCatalog
              \/ ToolKey(ServerNameText(tool), tool.name) \in DOMAIN tools
           /\ RegisterTool(tool)
    \/ \E sn \in CatServerNames \cup {"unknown"} : ClearServerTools(sn)
    \/ ClearAllTools
    \/ \E q \in CatQueries : CallSearchTools(q)
    \/ CallGetToolsByCategory
    \/ CallGetStats

SpecCatalog == Init /\ [][NextCatalog]_vars

\* ================================================ the proxy's start request
\* POST /mcp/start of mcp-proxy-server.js for one serverName.  Start request s
\* spawns process s; a process is a record of what the proxy can observe of it.
\* the process a start is given when the server process writes: a line that is
\* not JSON, a notification, or the response to the initialize request (id 1)
\* once that request was written to its stdin
BootWrites(initialized) ==
    {<<Tok("junk", 0), Tok("nl", 0)>>, <<Tok("note", 0), Tok("nl", 0)>>}
        \cup (IF initialized THEN {<<Tok("resp", 1), Tok("nl", 0)>>} ELSE {})

\* the initialize request of line 295-309 as sendMCPMessage holds it
InitRequest == [state |-> "pending", id |-> 1, responseData |-> <<>>, result |-> NoResponse,
                settles |-> 0]

\* resolve / reject of the promise of line 143: only the first call settles it
SettleWait(st, outcome, by) ==
    IF st.wait = "pending" THEN [st EXCEPT !.wait = outcome, !.by = by] ELSE st

\* clearTimeout(timeout), lines 155, 168, 173 and 183
ClearStartTimeout(st) == IF st.timeout = "armed" THEN [st EXCEPT !.timeout = "cleared"] ELSE st

\* lines 199-204 and 208-212: the response, and the map entry at that moment
Respond(st, response, entry) ==
    [st EXCEPT !.pc = "done", !.response = response, !.tracked = entry]

\* the body of handleMCPStart after an await, run as soon as the awaited
\* promise is settled.  After the start wait (line 143): a rejection is caught
\* at line 206; otherwise initializeMCPConnection is called with the map entry
\* (line 192), and with no entry sendMCPMessage throws at line 368, which line
\* 194 catches.  After sendMCPMessage (line 311): a resolution is followed by
\* the initialized notification (lines 320-321) and in either case the start
\* responds success (lines 194-204).
Proceed(st, entry) ==
    IF st.pc = "waiting" /\ st.wait = "rejected" THEN Respond(st, "failure", entry)
    ELSE IF st.pc = "waiting" /\ st.wait = "resolved"
    THEN IF entry = 0 THEN Respond(st, "success", entry)
         ELSE [st EXCEPT !.pc = "initializing", !.target = entry, !.init = InitRequest,
                         !.initTimer = TRUE]
    ELSE IF st.pc = "initializing" /\ st.init.state = "resolved"
    THEN Respond([st EXCEPT !.notified = TRUE, !.initTimer = FALSE], "success", entry)
    ELSE IF st.pc = "initializing" /\ st.init.state = "rejected"
    THEN Respond(st, "success", entry)
    ELSE st

ProceedAll(sts, entry) == [s \in Starts |-> Proceed(sts[s], entry)]

\* the processes that were sent the initialize request (line 371)
SentInitialize(sts) == {sts[s].target : s \in Starts} \ {0}

\* the grace timer that accepts nothing
StillRunning_Never(ps, p) == FALSE

\* !process.killed && process.pid, line 182; process.killed is set by kill()
\* when the signal was sent, it does not say that the process is gone
StillRunning(ps, p) == ~ps[p].killed /\ ps[p].pid

\* stopMCPProcess, lines 391-398: kill() and the entry is deleted
StopMCPProcess(ps, p) ==
    IF p = 0 THEN ps
    ELSE [ps EXCEPT ![p].killed = (ps[p].state = "running")]

\* the entry the exit handler of lines 137-140 leaves in the map: it deletes the
\* entry of its serverName, whichever process the entry holds
ExitDeletes(entry, p) == 0

\* handleMCPStart, lines 104-187, up to the await of line 143.  Without cwd
\* the initialiser of line 118 reads the const `process` it declares (line 119)
\* and throws; spawn of a command that cannot be run gives a process without pid
HandleMCPStart(s, cwd, spawned) ==
    /\ starts[s].pc = "idle"
    /\ \A q \in Starts : q < s => starts[q].pc # "idle"
    /\ IF cwd = "absent"
       THEN /\ procs' = StopMCPProcess(procs, mcpProcesses)
            /\ mcpProcesses' = 0
            /\ starts' = [starts EXCEPT ![s] =
                              Respond([@ EXCEPT !.prior = mcpProcesses], "failure", 0)]
       ELSE /\ procs' = [StopMCPProcess(procs, mcpProcesses) EXCEPT ![s] =
                             [state |-> IF spawned THEN "running" ELSE "failed",
                              killed |-> FALSE, pid |-> spawned, out |-> 0]]
            /\ mcpProcesses' = s
            /\ starts' = [starts EXCEPT ![s] =
                              [@ EXCEPT !.pc = "waiting", !.prior = mcpProcesses,
                                        !.timeout = "armed", !.grace = "armed",
                                        !.once = TRUE]]
    /\ UNCHANGED <<mgrVars, pxVars, regVars, evVars, aggVars, listing, msgs, batch>>

\* a 'data' event of process p's stdout: dataHandler (lines 151-157, once) and
\* the responseHandler of every initialize request sent to p
BootData(p, w) ==
    LET onData(s) ==
            LET st1 == IF s = p /\ starts[s].once
                       THEN SettleWait(ClearStartTimeout([starts[s] EXCEPT !.once = FALSE]),
                                       "resolved", "data")
                       ELSE starts[s]
            IN IF st1.pc = "initializing" /\ st1.target = p
               THEN [st1 EXCEPT !.init = ResponseHandler(@, w)]
               ELSE st1
    IN /\ procs[p].state = "running"
       /\ procs[p].out < MaxBoot
       /\ w \in BootWrites(p \in SentInitialize(starts))
       /\ procs' = [procs EXCEPT ![p].out = @ + 1]
       /\ starts' = ProceedAll([s \in Starts |-> onData(s)], mcpProcesses)
       /\ UNCHANGED mcpProcesses
       /\ UNCHANGED <<mgrVars, pxVars, regVars, evVars, aggVars, listing, msgs, batch>>

\* the 'exit' event of process p: lines 137-140 and 172-177
ProcessExit(p, code) ==
    /\ procs[p].state = "running"
    /\ procs' = [procs EXCEPT ![p].state = "exited"]
    /\ mcpProcesses' = ExitDeletes(mcpProcesses, p)
    /\ starts' = ProceedAll([starts EXCEPT ![p] =
                                 IF code # 0
                                 THEN SettleWait(ClearStartTimeout(@), "rejected", "exit")
                                 ELSE ClearStartTimeout(@)],
                            mcpProcesses')
    /\ UNCHANGED <<mgrVars, pxVars, regVars, evVars, aggVars, listing, msgs, batch>>

\* the 'error' event of a process that could not be spawned: lines 133-135 and
\* 167-170
ProcessError(p) ==
    /\ procs[p].state = "failed"
    /\ procs' = [procs EXCEPT ![p].state = "errored"]
    /\ starts' = ProceedAll([starts EXCEPT ![p] =
                                 SettleWait(ClearStartTimeout(@), "rejected", "error")],
                            mcpProcesses)
    /\ UNCHANGED mcpProcesses
    /\ UNCHANGED <<mgrVars, pxVars, regVars, evVars, aggVars, listing, msgs, batch>>

\* the 2 s timer of lines 180-186
GraceElapsed(s) ==
    /\ starts[s].grace = "armed"
    /\ starts' = ProceedAll([starts EXCEPT ![s] =
                                 IF StillRunning(procs, s)
                                 THEN SettleWait(ClearStartTimeout([@ EXCEPT !.grace = "fired"]),
                                                 "resolved", "grace")
                                 ELSE [@ EXCEPT !.grace = "fired"]],
                            mcpProcesses)
    /\ UNCHANGED <<procs, mcpProcesses>>
    /\ UNCHANGED <<mgrVars, pxVars, regVars, evVars, aggVars, listing, msgs, batch>>

\* the 10 s timer of lines 144-146; it was set before the 2 s timer
StartupTimeout(s) ==
    /\ starts[s].timeout = "armed"
    /\ starts[s].grace = "fired"
    /\ starts' = ProceedAll([starts EXCEPT ![s] =
                                 SettleWait([@ EXCEPT !.timeout = "fired"], "rejected", "timeout")],
                            mcpProcesses)
    /\ UNCHANGED <<procs, mcpProcesses>>
    /\ UNCHANGED <<mgrVars, pxVars, regVars, evVars, aggVars, listing, msgs, batch>>

\* the 15 s timer of the initialize request, lines 362-366
InitTimeout(s) ==
    /\ starts[s].pc = "initializing"
    /\ starts[s].initTimer
    /\ starts' = ProceedAll([starts EXCEPT ![s] =
                                 [@ EXCEPT !.initTimer = FALSE,
                                           !.init = Settle(@, "rejected", Tok("timeout", 0))]],
                            mcpProcesses)
    /\ UNCHANGED <<procs, mcpProcesses>>
    /\ UNCHANGED <<mgrVars, pxVars, regVars, evVars, aggVars, listing, msgs, batch>>

NextStart ==
    \/ \E s \in Starts, cwd \in {"given", "absent"}, spawned \in BOOLEAN :
           HandleMCPStart(s, cwd, spawned)
    \/ \E p \in Starts, w \in BootWrites(TRUE) : BootData(p, w)
    \/ \E p \in Starts, code \in {0, 1} : ProcessExit(p, code)
    \/ \E p \in Starts : ProcessError(p)
    \/ \E s \in Starts : GraceElapsed(s)
    \/ \E s \in Starts : StartupTimeout(s)
    \/ \E s \in Starts : InitTimeout(s)

SpecStart == Init /\ [][NextStart]_vars

\* ============================================= the protocol clients' listTools
\* MCPClient.listTools (MCPClient.ts) and BrowserMCPClient.listToolsViaHTTP
\* (BrowserMCPClient.ts), called on clients of the server "alpha"
Lists == 1..MaxLists

\* a tool as the bridge's /tools/list answer carries it; the bridge may add
\* fields the client does not copy
BridgeTool(i) ==
    [name |-> "tool" \o ToString(i), description |-> "d", inputSchema |-> "schema",
     annotations |-> "extra"]

\* the values response.json() resolves with: an object with a tools array, an
\* object without tools, an object whose tools is a text (toolsText), and null
BridgePayloads ==
    {[tools |-> [i \in 1..k |-> BridgeTool(i)]] : k \in 0..MaxPayload}
        \cup {[other |-> TRUE], [toolsText |-> "text"], [null |-> TRUE]}

\* lines 154-159: data.tools?.map(...) || []; reading a property of null and
\* calling map on a value that is no array throw
Decode(data, serverName) ==
    IF "null" \in DOMAIN data THEN [threw |-> TRUE]
    ELSE IF "toolsText" \in DOMAIN data THEN [threw |-> TRUE]
    ELSE IF "tools" \notin DOMAIN data THEN [threw |-> FALSE, tools |-> <<>>]
    ELSE [threw |-> FALSE,
          tools |-> [i \in 1..Len(data.tools) |->
                        [name |-> data.tools[i].name,
                         description |-> data.tools[i].description,
                         inputSchema |-> data.tools[i].inputSchema,
                         serverName |-> serverName]]]

\* the catch block of lines 163-171: it throws an MCPError, the promise of
\* listToolsViaHTTP is rejected
ListCatch(l) == [l EXCEPT !.pc = "done", !.outcome = "rejected", !.value = <<>>]

\* MCPClient.listTools, MCPClient.ts lines 75-81: it throws
MCPClientListTools(c) ==
    /\ listing[c].pc = "idle"
    /\ \A q \in Lists : q < c => listing[q].pc # "idle"
    /\ listing' = [listing EXCEPT ![c] = [@ EXCEPT !.client = "MCPClient", !.pc = "done",
                                                   !.failed = "unsupported",
                                                   !.outcome = "rejected"]]
    /\ UNCHANGED <<mgrVars, pxVars, regVars, evVars, aggVars, startVars, msgs, batch>>

\* listToolsViaHTTP, lines 139-147: the request is sent
ListToolsViaHTTP(c) ==
    /\ listing[c].pc = "idle"
    /\ \A q \in Lists : q < c => listing[q].pc # "idle"
    /\ listing' = [listing EXCEPT ![c] = [@ EXCEPT !.client = "BrowserMCPClient",
                                                   !.pc = "fetching"]]
    /\ UNCHANGED <<mgrVars, pxVars, regVars, evVars, aggVars, startVars, msgs, batch>>

\* fetch rejects: the bridge cannot be reached
FetchRejected(c) ==
    /\ listing[c].pc = "fetching"
    /\ listing' = [listing EXCEPT ![c] = ListCatch([@ EXCEPT !.failed = "unreachable"])]
    /\ UNCHANGED <<mgrVars, pxVars, regVars, evVars, aggVars, startVars, msgs, batch>>

\* fetch resolves, lines 149-153: a response that is not ok throws
FetchResolved(c, ok) ==
    /\ listing[c].pc = "fetching"
    /\ listing' = [listing EXCEPT ![c] =
                       IF ok THEN [@ EXCEPT !.pc = "decoding"]
                       ELSE ListCatch([@ EXCEPT !.failed = "not ok"])]
    /\ UNCHANGED <<mgrVars, pxVars, regVars, evVars, aggVars, startVars, msgs, batch>>

\* response.json() rejects: the body is not JSON
JsonRejected(c) ==
    /\ listing[c].pc = "decoding"
    /\ listing' = [listing EXCEPT ![c] = ListCatch([@ EXCEPT !.failed = "not JSON"])]
    /\ UNCHANGED <<mgrVars, pxVars, regVars, evVars, aggVars, startVars, msgs, batch>>

\* response.json() resolves, lines 153-162
JsonResolved(c, data) ==
    /\ listing[c].pc = "decoding"
    /\ listing' = [listing EXCEPT ![c] =
                       IF Decode(data, "alpha").threw
                       THEN ListCatch([@ EXCEPT !.failed = "not decodable", !.data = data])
                       ELSE [@ EXCEPT !.pc = "done", !.outcome = "resolved", !.data = data,
                                      !.value = Decode(data, "alpha").tools]]
    /\ UNCHANGED <<mgrVars, pxVars, regVars, evVars, aggVars, startVars, msgs, batch>>

NextClient ==
    \/ \E c \in Lists : MCPClientListTools(c)
    \/ \E c \in Lists : ListToolsViaHTTP(c)
    \/ \E c \in Lists : FetchRejected(c)
    \/ \E c \in Lists, ok \in BOOLEAN : FetchResolved(c, ok)
    \/ \E c \in Lists : JsonRejected(c)
    \/ \E c \in Lists, data \in BridgePayloads : JsonResolved(c, data)

SpecClient == Init /\ [][NextClient]_vars

\* ================================== the process-management message handler
\* background/messages/mcp/process-management.ts (src/unnamed/part_009).  The
\* manager is the handler's environment: an operation it is asked for is
\* noted, and its promise resolves or rejects.
Msgs == 1..MaxMsgs

\* a message without body: req.body is undefined
NoBody == [undefined |-> TRUE]

\* req.body; a field is present (truthy) or not.  Only the fields the switch
\* reads for the action are varied.
Body(action, serverName, config, toolName) ==
    [action |-> action, serverName |-> serverName, config |-> config, toolName |-> toolName]

HandlerBodies ==
    {Body(a, sn, cf, FALSE) : a \in {"start", "restart"}, sn \in BOOLEAN, cf \in BOOLEAN}
        \cup {Body(a, sn, FALSE, FALSE) : a \in {"stop", "status", "list-tools"}, sn \in BOOLEAN}
        \cup {Body("call-tool", sn, FALSE, tn) : sn \in BOOLEAN, tn \in BOOLEAN}
        \cup {Body(a, FALSE, FALSE, FALSE) : a \in {"list-status", "invalid-action", "undefined"}}
        \cup {NoBody}

\* the switch of lines 49-102: the Error it throws, or the manager operation
\* it calls and whether the handler awaits it
Switch(body) ==
    LET throw == [throws |-> TRUE, op |-> "none", awaits |-> FALSE]
        call(op, awaits) == [throws |-> FALSE, op |-> op, awaits |-> awaits]
    IN CASE body.action = "start" ->
                IF ~body.serverName \/ ~body.config THEN throw ELSE call("startServer", TRUE)
         [] body.action = "stop" ->
                IF ~body.serverName THEN throw ELSE call("stopServer", TRUE)
         [] body.action = "restart" ->
                IF ~body.serverName \/ ~body.config THEN throw ELSE call("restartServer", TRUE)
         [] body.action = "status" ->
                IF ~body.serverName THEN throw ELSE call("getServerStatus", FALSE)
         [] body.action = "list-status" -> call("getAllServerStatuses", FALSE)
         [] body.action = "list-tools" ->
                IF body.serverName THEN call("listTools", TRUE) ELSE call("listAllTools", TRUE)
         [] body.action = "call-tool" ->
                IF ~body.serverName \/ ~body.toolName THEN throw ELSE call("callTool", TRUE)
         [] OTHER -> throw

\* res.send of lines 104-109
SendSuccess(msg) ==
    [msg EXCEPT !.pc = "done", !.sent = @ + 1, !.response = [success |-> TRUE, data |-> msg.op]]

\* the catch block, lines 110-119
SendFailure(msg) ==
    [msg EXCEPT !.pc = "done", !.sent = @ + 1,
                !.response = [success |-> FALSE, error |-> "Error"]]

\* the handler up to its first await, lines 42-109.  The destructuring of line
\* 43 is outside the try block: with req.body undefined it throws and the
\* handler's promise is rejected
Handler(m, body) ==
    /\ msgs[m].pc = "idle"
    /\ \A q \in Msgs : q < m => msgs[q].pc # "idle"
    /\ msgs' = [msgs EXCEPT ![m] =
                    IF body = NoBody
                    THEN [@ EXCEPT !.body = body, !.pc = "done", !.escaped = TRUE]
                    ELSE IF Switch(body).throws
                    THEN SendFailure([@ EXCEPT !.body = body])
                    ELSE IF Switch(body).awaits
                    THEN [@ EXCEPT !.body = body, !.pc = "awaiting", !.op = Switch(body).op]
                    ELSE SendSuccess([@ EXCEPT !.body = body, !.op = Switch(body).op])]
    /\ UNCHANGED <<mgrVars, pxVars, regVars, evVars, aggVars, startVars, listing, batch>>

\* the awaited manager operation resolves
ManagerResolved(m) ==
    /\ msgs[m].pc = "awaiting"
    /\ msgs' = [msgs EXCEPT ![m] = SendSuccess(@)]
    /\ UNCHANGED <<mgrVars, pxVars, regVars, evVars, aggVars, startVars, listing, batch>>

\* the awaited manager operation rejects; listAllTools does not (it catches
\* the failure of each server, MCPProcessManager.ts lines 213-226)
ManagerRejected(m) ==
    /\ msgs[m].pc = "awaiting"
    /\ msgs[m].op # "listAllTools"
    /\ msgs' = [msgs EXCEPT ![m] = SendFailure(@)]
    /\ UNCHANGED <<mgrVars, pxVars, regVars, evVars, aggVars, startVars, listing, batch>>

NextHandler ==
    \/ \E m \in Msgs, body \in HandlerBodies : Handler(m, body)
    \/ \E m \in Msgs : ManagerResolved(m)
    \/ \E m \in Msgs : ManagerRejected(m)

SpecHandler == Init /\ [][NextHandler]_vars

\* ============================================ a batch of tool calls of a turn
\* ToolCallExecutor.executeToolCalls (docs/API-Switch-Technical-Spec.md) and
\* OpenAIAPIBot.handleToolCalls (ModelConfigManager.ts)
ConcurrentLimit == 3   \* line 716 of the document

\* a tool call of the batch: its id, and how its execution goes: the call
\* carries an error, its server is not running, or callTool is awaited
BatchKinds == {"erroneous", "notRunning", "callable"}

Batches ==
    UNION {{[i \in 1..n |-> [id |-> "call_" \o ToString(i), kind |-> kinds[i]]] :
               kinds \in [1..n -> BatchKinds]} : n \in 0..MaxBatch}

\* ToolCallResult
Result(id, success, error) == [id |-> id, success |-> success, error |-> error]

Unstarted == [state |-> "unstarted", value |-> Result("", FALSE, "")]

\* executeSingleTool up to its await, lines 745-774 of the document
ExecuteSingleTool(call) ==
    IF call.kind = "erroneous"
    THEN [state |-> "fulfilled", value |-> Result(call.id, FALSE, "call.error")]
    ELSE IF call.kind = "notRunning"
    THEN [state |-> "fulfilled", value |-> Result(call.id, FALSE, "SERVER_NOT_RUNNING")]
    ELSE [state |-> "pending", value |-> Result(call.id, FALSE, "")]

\* one chunk that holds every remaining call
ChunkOf_Whole(b) == {i \in 1..Len(b.calls) : b.next <= i}

\* chunkArray, lines 842-848: the chunk that starts at b.next
ChunkOf(b) ==
    {i \in 1..Len(b.calls) : b.next <= i /\ i < b.next + ConcurrentLimit}

\* chunk.map(call => this.executeSingleTool(call)), line 721
StartChunk(b) ==
    LET started == [i \in 1..Len(b.calls) |->
                       IF i \in ChunkOf(b) THEN ExecuteSingleTool(b.calls[i]) ELSE b.settled[i]]
    IN [b EXCEPT !.settled = started,
                 !.order = @ \o SelectSeq([i \in 1..Len(b.calls) |-> i],
                                          LAMBDA i : i \in ChunkOf(b)
                                                     /\ started[i].state = "fulfilled")]

\* the results in the order the promises of the chunk were settled
ChunkResults_AsSettled(b) ==
    LET settledOrder == SelectSeq(b.order, LAMBDA i : i \in ChunkOf(b))
    IN [k \in 1..Len(settledOrder) |-> b.settled[settledOrder[k]].value]

\* lines 724-736: the results of the chunk, by index
ChunkResults(b) ==
    [k \in 1..Cardinality(ChunkOf(b)) |->
        LET i == b.next + k - 1 IN
        IF b.settled[i].state = "fulfilled" THEN b.settled[i].value
        ELSE Result(b.calls[i].id, FALSE, "Unknown error")]

\* the loop of lines 719-737 from the await of line 720: when every promise of
\* the chunk is settled its results are pushed and the next chunk is started
RECURSIVE Advance(_)
Advance(b) ==
    IF b.pc = "running" /\ \A i \in ChunkOf(b) : b.settled[i].state # "pending"
    THEN LET b1 == [b EXCEPT !.results = @ \o ChunkResults(b)] IN
         IF b.next + ConcurrentLimit > Len(b.calls) THEN [b1 EXCEPT !.pc = "done"]
         ELSE Advance(StartChunk([b1 EXCEPT !.next = @ + ConcurrentLimit]))
    ELSE b

\* executeToolCalls, lines 712-740 of the document
ExecuteToolCalls(toolCalls) ==
    /\ batch.pc = "idle"
    /\ batch' = Advance(StartChunk([batch EXCEPT !.by = "executeToolCalls", !.calls = toolCalls,
                                                  !.pc = "running", !.next = 1,
                                                  !.settled = [i \in 1..Len(toolCalls) |->
                                                                  Unstarted]]))
    /\ UNCHANGED <<mgrVars, pxVars, regVars, evVars, aggVars, startVars, listing, msgs>>

\* mcpManager.callTool of call i resolves, lines 770-781 of the document
ToolCallResolved(i) ==
    /\ batch.pc = "running"
    /\ i \in DOMAIN batch.settled
    /\ batch.settled[i].state = "pending"
    /\ batch' = Advance([batch EXCEPT
                             !.settled[i] = [state |-> "fulfilled",
                                             value |-> Result(batch.calls[i].id, TRUE, "")],
                             !.order = Append(@, i)])
    /\ UNCHANGED <<mgrVars, pxVars, regVars, evVars, aggVars, startVars, listing, msgs>>

\* mcpManager.callTool of call i rejects, lines 783-794 of the document
ToolCallRejected(i) ==
    /\ batch.pc = "running"
    /\ i \in DOMAIN batch.settled
    /\ batch.settled[i].state = "pending"
    /\ batch' = Advance([batch EXCEPT
                             !.settled[i] = [state |-> "fulfilled",
                                             value |-> Result(batch.calls[i].id, FALSE,
                                                              "TOOL_CALL_FAILED")],
                             !.order = Append(@, i)])
    /\ UNCHANGED <<mgrVars, pxVars, regVars, evVars, aggVars, startVars, listing, msgs>>

\* the entry of lines 576-582 of ModelConfigManager.ts: the tool is not
\* executed, the result is the constant of line 576
ToolResultEntry(toolCall) ==
    [tool_call_id |-> toolCall.id, role |-> "tool", content |-> "not implemented yet"]

\* handleToolCalls, ModelConfigManager.ts lines 548-595; it is called with at
\* least one tool call (line 484)
HandleToolCalls(toolCalls) ==
    /\ batch.pc = "idle"
    /\ toolCalls # <<>>
    /\ batch' = [batch EXCEPT !.by = "handleToolCalls", !.calls = toolCalls, !.pc = "done",
                              !.results = [i \in 1..Len(toolCalls) |->
                                              ToolResultEntry(toolCalls[i])]]
    /\ UNCHANGED <<mgrVars, pxVars, regVars, evVars, aggVars, startVars, listing, msgs>>

NextBatch ==
    \/ \E toolCalls \in Batches : ExecuteToolCalls(toolCalls)
    \/ \E i \in 1..MaxBatch : ToolCallResolved(i)
    \/ \E i \in 1..MaxBatch : ToolCallRejected(i)
    \/ \E toolCalls \in Batches : HandleToolCalls(toolCalls)

SpecBatch == Init /\ [][NextBatch]_vars

\* ===================================================== a failing tool call
\* The manager's callTool next to POST /mcp/call of the proxy on the process
\* that POST /mcp/start tracks.
\* handleMCPCall, lines 219-264: without a map entry for the serverName the
\* call throws at line 230 and is answered 500; with one the message is sent
\* to the process (HandleMCPCall)
HandleMCPCallOn(r, now) ==
    IF mcpProcesses # 0
    THEN HandleMCPCall(r, now)
    ELSE /\ pxReqs[r].state = "idle"
         /\ \A q \in Reqs : q < r => pxReqs[q].state # "idle"
         /\ pxReqs' = [pxReqs EXCEPT ![r] = [IdleReq EXCEPT !.state = "rejected",
                                                            !.result = Tok("unstarted", 0)]]
         /\ UNCHANGED <<mgrVars, extVars, pxListeners, pxTimers, pxStdin, pxOut, pxLate>>

NextCallFailure ==
    \/ \E c \in Calls, n \in ServerNames : StartServer(c, n)
    \/ \E c \in Calls : ConnectResolved(c)
    \/ \E c \in Calls, nTools \in 0..MaxTools : ListResolved(c, nTools)
    \/ \E c \in Calls, n \in ServerNames : CallTool(c, n)
    \/ \E c \in Calls : ToolResolved(c)
    \/ \E c \in Calls : ToolRejected(c)
    \/ \E s \in Starts : HandleMCPStart(s, "given", TRUE)
    \/ \E r \in Reqs, now \in NowValues(pxStdin) : HandleMCPCallOn(r, now)
    \/ \E r \in Reqs : Timeout(r)

SpecCallFailure == Init /\ [][NextCallFailure]_vars

\* ================================================================ claims
Statuses == {"stopped", "starting", "running", "stopping", "error"}

StatusOf(ss, n) == GetServerStatus(ss, n).status

\* the types of the events one call emitted, in order
EventTypesBy(ev, c) == [i \in 1..Len(ev[c]) |-> ev[c][i].type]

CountType(types, t) == Cardinality({i \in 1..Len(types) : types[i] = t})

ConnectedClients(n) ==
    {k \in DOMAIN clientObjs : clientObjs[k].serverName = n /\ clientObjs[k].state = "connected"}

C3_FailedConnectEndsInError ==
    [][\A c \in Calls :
         (/\ calls[c].pc = "connecting"
          /\ clientObjs'[calls[c].client].state = "failed")
         => LET n == calls[c].name
                st == GetServerStatus(serverStatuses', n)
            IN /\ calls'[c].pc = "done"
               /\ calls'[c].result = "rejected"
               /\ st.status = "error"
               /\ "error" \in DOMAIN st
               /\ st.error # ""
               /\ events' = [events EXCEPT ![c] =
                                Append(@, [type |-> "server_error", serverName |-> n])]]_vars

C3_Witness ==
    \E c \in Calls :
        /\ calls[c].op = "start"
        /\ calls[c].pc = "done"
        /\ calls[c].result = "rejected"
        /\ clientObjs[calls[c].client].state = "failed"

Lifecycle ==
    {<<"stopped", "starting">>, <<"starting", "running">>, <<"running", "stopping">>,
     <<"stopping", "stopped">>, <<"error", "starting">>}
        \cup {<<s, "error">> : s \in Statuses}

\* C4: every status change is one of stopped->starting, starting->running,
\* running->stopping, stopping->stopped, error->starting or any->error
C4_LifecycleRelation == \A t \in transitions : <<t[2], t[3]>> \in Lifecycle

\* C5: a proxy request is only ever resolved with the JSON-RPC response that
\* carries the id of the request, never with another call's response or with
\* a notification
C5_ResolvedWithOwnResponse ==
    \A r \in Reqs :
        pxReqs[r].state = "resolved" =>
            pxReqs[r].result.k # "note" /\ pxReqs[r].result.id = pxReqs[r].id

\* C6: once the data a request's handler has received holds, on a line after a
\* malformed or unmatched line, the response with the request's id, the request
\* is resolved with that response (the earlier line did not block it)
C6_MalformedLineDoesNotBlock ==
    \A r \in Reqs :
        LET lines == SplitLines(pxReqs[r].responseData) IN
        (\E i \in 2..Len(lines) : JsonParse(lines[i]) = Tok("resp", pxReqs[r].id))
            => (/\ pxReqs[r].state = "resolved"
                /\ pxReqs[r].result.id = pxReqs[r].id)

Settled(r) == pxReqs[r].state \in {"resolved", "rejected"}

\* C7: every proxy request settles exactly once, by a response or by its own
\* timer; a settled request has no stdout listener and no timer, and nothing
\* that arrives afterwards changes its outcome
C7_SettlesExactlyOnce ==
    /\ [](\A r \in Reqs :
            /\ pxReqs[r].settles <= 1
            /\ Settled(r) <=> pxReqs[r].settles = 1
            /\ Settled(r) => r \notin pxListeners /\ r \notin pxTimers
            /\ pxReqs[r].state = "pending" => r \in pxListeners /\ r \in pxTimers
            /\ pxReqs[r].state = "rejected" => pxReqs[r].result = Tok("timeout", 0)
            /\ pxReqs[r].state = "resolved" => pxReqs[r].result.k \in {"resp", "note", "obj"})
    /\ [][\A r \in Reqs :
            /\ Settled(r) => pxReqs'[r] = pxReqs[r]
            /\ (pxReqs[r].state = "pending" /\ pxReqs'[r].state = "rejected")
                   => (r \in pxTimers /\ r \notin pxTimers')]_vars
    /\ \A r \in Reqs : (pxReqs[r].state = "pending") ~> Settled(r)

\* a request timed out and its response arrived afterwards
C7_Witness ==
    \E r \in Reqs :
        /\ pxReqs[r].state = "rejected"
        /\ r \in pxLate

C9_NoClientRejects ==
    /\ [](\A c \in Calls :
            calls[c].result = "not_running" => EventTypesBy(events, c) = <<>>)
    /\ [][\A c \in Calls :
            (/\ calls[c].pc = "idle"
             /\ calls'[c].op = "callTool"
             /\ calls'[c].name \notin DOMAIN clients)
            => (/\ calls'[c].pc = "done"
                /\ calls'[c].result = "not_running"
                /\ events' = events
                /\ serverStatuses' = serverStatuses
                /\ transitions' = transitions
                /\ clients' = clients)]_vars

C9_Witness ==
    \E c \in Calls : calls[c].op = "callTool" /\ calls[c].result = "not_running"

RegPairs == RegServerNames \X RegToolNames

\* C20: after any sequence of registerTool, registerTools, clearServerTools and
\* clearAllTools the registry holds at most one tool per (serverName, name) pair,
\* in the flat map and in the per-server list, and for every pair getTool
\* returns the tool registered last for that pair since the last clear, or
\* undefined when there is none
C20_OneToolPerPair ==
    \A pr \in RegPairs :
        /\ Cardinality({k \in DOMAIN tools :
                          /\ "serverName" \in DOMAIN tools[k]
                          /\ tools[k].serverName = pr[1]
                          /\ tools[k].name = pr[2]}) <= 1
        /\ Cardinality({i \in 1..Len(GetServerTools(serverTools, pr[1])) :
                          GetServerTools(serverTools, pr[1])[i].name = pr[2]}) <= 1
        /\ GetTool(tools, pr[1], pr[2]) =
               IF pr \in DOMAIN registered THEN registered[pr] ELSE NoTool

\* the calls that deliver one event to each listener of a channel, in
\* registration order
OncePerListener(el, ch) ==
    [i \in 1..Len(GetListeners(el, ch)) |-> [channel |-> ch, listener |-> GetListeners(el, ch)[i]]]

\* C15: the latest emitted event was delivered exactly once to every listener
\* that was registered for the wildcard and then exactly once to every listener
\* registered for the event's server name, each channel in registration order,
\* whatever the listeners do when called
C15_DeliveredToEveryListener ==
    emitted.serverName # "none" =>
        delivered = OncePerListener(emitted.listeners, "*")
                        \o OncePerListener(emitted.listeners, emitted.serverName)

\* the tools of the flat map that name n as their server
OwnedBy(t, n) == {tool \in GetAllTools(t) : "serverName" \in DOMAIN tool /\ tool.serverName = n}

C18_StopClearsRegistry ==
    [][\A c \in Calls :
         (/\ calls'[c].op = "stop"
          /\ calls[c].pc # "done"
          /\ calls'[c].pc = "done"
          /\ calls'[c].result = "resolved")
         => (/\ GetServerTools(serverTools', calls'[c].name) = <<>>
             /\ OwnedBy(tools', calls'[c].name) = {})]_vars

\* a lifecycle operation has been performed on the name
Operated(n) == \E c \in Calls : calls[c].name = n

\* C19: for a name on which no lifecycle operation was performed,
\* getServerStatus returns the name with status 'stopped'; no query writes the
\* status map, so no entry exists for such a name and getAllServerStatuses() of
\* a manager that performed no operation is empty
C19_QueryHasNoSideEffect ==
    /\ [](\A n \in QueryNames :
            ~Operated(n) =>
                /\ GetServerStatus(serverStatuses, n) = [name |-> n, status |-> "stopped"]
                /\ n \notin DOMAIN serverStatuses)
    /\ []((\A n \in QueryNames : ~Operated(n)) => GetAllServerStatuses(serverStatuses) = {})
    /\ [][queried' # queried =>
            /\ serverStatuses' = serverStatuses
            /\ ~Operated(queried'.name) =>
                   queried' = [name |-> queried'.name, status |-> "stopped"]]_vars

\* a never-started name was queried on a manager that has completed a
\* startServer call on another name
C19_Witness ==
    /\ queried = [name |-> "beta", status |-> "stopped"]
    /\ \E c \in Calls : calls[c].pc = "done" /\ calls[c].name = "alpha"
    /\ GetAllServerStatuses(serverStatuses) # {}

RECURSIVE ConcatOk(_)
ConcatOk(answers) ==
    IF answers = <<>> THEN <<>>
    ELSE (IF Head(answers).ok THEN Head(answers).tools ELSE <<>>) \o ConcatOk(Tail(answers))

C21_ClearServerToolsFrame ==
    [][\A sn \in RegServerNames :
         ClearServerTools(sn) =>
             /\ OwnedBy(tools', sn) = {}
             /\ GetServerTools(serverTools', sn) = <<>>
             /\ \A other \in RegServerNames \ {sn} :
                    /\ OwnedBy(tools', other) = OwnedBy(tools, other)
                    /\ GetServerTools(serverTools', other) = GetServerTools(serverTools, other)]_vars

\* the names getServerTools can be asked about in SpecCatalog
CatGroups == CatServerNames \cup {"unknown"}

\* the sum of the counts of a record of counts
RECURSIVE SumCounts(_, _)
SumCounts(counts, keys) ==
    IF keys = {} THEN 0
    ELSE LET k == CHOOSE x \in keys : TRUE IN counts[k] + SumCounts(counts, keys \ {k})

\* C22: getStats() agrees with the read views: totalTools is the size of
\* getAllTools(), serverCount is the number of servers that own at least one
\* tool, toolsByServer[s] is the size of getServerTools(s) for every such
\* server, and the toolsByCategory counts sum to totalTools
C22_StatsAgreeWithViews ==
    returned.call = "getStats" =>
        LET stats == returned.value
            owners == {sn \in CatGroups : GetServerTools(serverTools, sn) # <<>>}
        IN /\ stats.totalTools = Cardinality(GetAllTools(tools))
           /\ stats.serverCount = Cardinality(owners)
           /\ DOMAIN stats.toolsByServer = owners
           /\ \A sn \in owners :
                  stats.toolsByServer[sn] = Len(GetServerTools(serverTools, sn))
           /\ SumCounts(stats.toolsByCategory, DOMAIN stats.toolsByCategory) = stats.totalTools

\* statistics of a registry of two tools under two owners
C22_Witness ==
    /\ returned.call = "getStats"
    /\ returned.value.totalTools = 2
    /\ returned.value.serverCount = 2

\* a capital letter and its small letter
LetterPairs ==
    {<<"A", "a">>, <<"B", "b">>, <<"C", "c">>, <<"D", "d">>, <<"E", "e">>, <<"F",
     "f">>, <<"G", "g">>, <<"H", "h">>, <<"I", "i">>, <<"J", "j">>, <<"K", "k">>,
     <<"L", "l">>, <<"M", "m">>, <<"N", "n">>, <<"O", "o">>, <<"P", "p">>, <<"Q",
     "q">>, <<"R", "r">>, <<"S", "s">>, <<"T", "t">>, <<"U", "u">>, <<"V", "v">>,
     <<"W", "w">>, <<"X", "x">>, <<"Y", "y">>, <<"Z", "z">>}

SameLetter(c, d) == c = d \/ <<c, d>> \in LetterPairs \/ <<d, c>> \in LetterPairs

\* two texts that differ in the case of letters at most
SameText(a, b) ==
    /\ Len(a) = Len(b)
    /\ \A k \in 1..Len(a) : SameLetter(SubSeq(a, k, k), SubSeq(b, k, k))

\* text s contains text q, compared case-insensitively
ContainsIgnoringCase(s, q) ==
    \E i \in 0..(Len(s) - Len(q)) : SameText(SubSeq(s, i + 1, i + Len(q)), q)

\* the keyword groups in the order the claim gives them
KeywordGroups ==
    <<[category |-> "filesystem", keywords |-> {"file", "dir", "path", "read", "write", "list"}],
      [category |-> "network", keywords |-> {"http", "fetch", "request", "url", "api"}],
      [category |-> "data", keywords |-> {"json", "csv", "data", "parse", "format"}],
      [category |-> "system", keywords |-> {"system", "process", "env", "exec", "command"}]>>

GroupMatches(i, name) == \E kw \in KeywordGroups[i].keywords : ContainsIgnoringCase(name, kw)

\* the bucket of the first keyword group the name contains, 'other' when none
FirstGroup(name) ==
    IF \E i \in 1..4 : GroupMatches(i, name)
    THEN KeywordGroups[CHOOSE i \in 1..4 :
                           /\ GroupMatches(i, name)
                           /\ \A j \in 1..(i - 1) : ~GroupMatches(j, name)].category
    ELSE "other"

\* C23: getToolsByCategory() places every registered tool in exactly one of
\* the five buckets filesystem, network, data, system, other, chosen from the
\* tool's lower-cased name by the first keyword group it contains in the order
\* filesystem, network, data, system (other when none matches); the buckets are
\* a function of the registry contents and the call does not change the registry
C23_CategorizeByFirstGroup ==
    [][returned'.call = "getToolsByCategory" =>
         LET buckets == returned'.value IN
         /\ DOMAIN buckets = {"filesystem", "network", "data", "system", "other"}
         /\ \A c \in DOMAIN buckets : buckets[c] \subseteq GetAllTools(tools)
         /\ \A tool \in GetAllTools(tools) :
                LET group == FirstGroup(tool.name) IN
                \A c \in DOMAIN buckets : (tool \in buckets[c]) <=> (c = group)
         /\ tools' = tools
         /\ serverTools' = serverTools]_vars

\* a categorisation that put a name in capitals with keywords of two groups
\* into the first of them, next to a tool of no group
C23_Witness ==
    /\ returned.call = "getToolsByCategory"
    /\ \E tool \in returned.value["network"] : tool.name = "Fetch_DATA"
    /\ returned.value["other"] # {}

\* C24: searchTools(q) returns exactly the registered tools whose name contains
\* q or whose description, when present, contains q, compared
\* case-insensitively, and no tool that matches on neither field
C24_SearchMatchesNameOrDescription ==
    returned.call = "searchTools" =>
        returned.value.items =
            {tool \in GetAllTools(tools) :
                \/ ContainsIgnoringCase(tool.name, returned.arg)
                \/ /\ "description" \in DOMAIN tool
                   /\ ContainsIgnoringCase(tool.description, returned.arg)}

\* a search in capitals that returned one tool for its description alone and
\* left another tool out
C24_Witness ==
    /\ returned.call = "searchTools"
    /\ \E tool \in returned.value.items : ~ContainsIgnoringCase(tool.name, returned.arg)
    /\ GetAllTools(tools) \ returned.value.items # {}

\* C25: when POST /mcp/start is received for a serverName that has a tracked
\* process, the prior process is killed before the new one is spawned, and
\* when the start request responds success while the process it spawned is
\* running, the map entry of the serverName refers to that process
C25_RestartReplacesProcess ==
    [][\A s \in Starts :
         /\ (/\ starts[s].pc = "idle"
             /\ starts'[s].pc # "idle"
             /\ mcpProcesses # 0
             /\ procs[mcpProcesses].state = "running")
                => procs'[mcpProcesses].killed
         /\ (/\ starts[s].response = "none"
             /\ starts'[s].response = "success"
             /\ starts'[s].prior # 0
             /\ procs'[s].state = "running")
                => mcpProcesses' = s]_vars

C27_InitializedAfterResponse ==
    [][\A s \in Starts :
         /\ (~starts[s].notified /\ starts'[s].notified)
                => starts'[s].init.result = Tok("resp", 1)
         /\ (starts[s].pc = "initializing" /\ starts'[s].init.result = Tok("timeout", 0))
                => /\ starts'[s].response = "success"
                   /\ mcpProcesses' = mcpProcesses]_vars

\* C28: listTools on a protocol client returns the decoded tool array on
\* success and an empty array on any failure (unreachable bridge, non-OK
\* response, unsupported environment); it never rejects
C28_ListToolsNeverRejects ==
    \A c \in Lists :
        listing[c].pc = "done" =>
            /\ listing[c].outcome = "resolved"
            /\ listing[c].failed # "none" => listing[c].value = <<>>
            /\ listing[c].failed = "none" =>
                   /\ Len(listing[c].value) =
                          (IF "tools" \in DOMAIN listing[c].data
                           THEN Len(listing[c].data.tools) ELSE 0)
                   /\ \A i \in 1..Len(listing[c].value) :
                          /\ listing[c].value[i].name = listing[c].data.tools[i].name
                          /\ listing[c].value[i].serverName = "alpha"

\* a request with an unknown action or without a field its action requires
Malformed(body) ==
    \/ body = NoBody
    \/ body.action \notin {"start", "stop", "restart", "status", "list-status", "list-tools",
                           "call-tool"}
    \/ body.action \in {"start", "restart"} /\ ~(body.serverName /\ body.config)
    \/ body.action \in {"stop", "status"} /\ ~body.serverName
    \/ body.action = "call-tool" /\ ~(body.serverName /\ body.toolName)

\* C29: the handler sends exactly one response of the form {success, data?,
\* error?} for every request and no exception escapes it; a request with an
\* unknown action or with missing required fields is answered success:false
\* without any Process Manager operation being invoked
C29_OneResponsePerRequest ==
    \A m \in Msgs :
        /\ msgs[m].sent <= 1
        /\ msgs[m].pc = "done" =>
               /\ msgs[m].sent = 1
               /\ ~msgs[m].escaped
               /\ "success" \in DOMAIN msgs[m].response
               /\ DOMAIN msgs[m].response \subseteq {"success", "data", "error"}
               /\ Malformed(msgs[m].body) =>
                      /\ ~msgs[m].response.success
                      /\ msgs[m].op = "none"

\* the call id an entry of the results carries
EntryId(entry) == IF "tool_call_id" \in DOMAIN entry THEN entry.tool_call_id ELSE entry.id

InFlight(b) == {i \in DOMAIN b.settled : b.settled[i].state = "pending"}

C34_LiveProcessIsTracked ==
    \A p \in Starts :
        (procs[p].state = "running" /\ ~procs[p].killed) => mcpProcesses = p

\* C35: whenever a start request responds success, the process it spawned is
\* alive and is the entry of the process map at that moment; a process that
\* exited during the startup wait is never reported as started
C35_SuccessMeansAliveAndTracked ==
    [][\A s \in Starts :
         (starts[s].response = "none" /\ starts'[s].response = "success")
             => (/\ procs'[s].state = "running"
                 /\ mcpProcesses' = s)]_vars

ServerError(n) == [type |-> "server_error", serverName |-> n]

Occurrences(seq, x) == Cardinality({i \in 1..Len(seq) : seq[i] = x})

\* the channels the latest event was delivered on
EmittedOn == {"*", emitted.serverName}

\* C37: when a listener calls removeEventListener while an event is being
\* delivered, every other listener that was registered when the event was
\* emitted and has not itself been removed still receives that event exactly
\* once (once for each of its registrations)
C37_RemovalDuringDeliveryLosesNone ==
    emitted.serverName # "none" =>
        \A ch \in EmittedOn : \A l \in Range(GetListeners(emitted.listeners, ch)) :
            l.does # "removes" =>
                Occurrences(delivered, [channel |-> ch, listener |-> l])
                    = Occurrences(GetListeners(emitted.listeners, ch), l)

\* the tools of the per-server grouping, over all groups
GroupedTools(st) == UNION {Range(st[g]) : g \in DOMAIN st}

\* C38: after any sequence of registry operations, tools without serverName
\* included, the flat lookup and the per-server grouping hold the same tools:
\* a tool is in getAllTools() if and only if it is in getServerTools of the
\* server it is grouped under (so a clearServerTools removes it from both)
C38_FlatAndGroupedAgree ==
    \A tool \in GetAllTools(tools) \cup GroupedTools(serverTools) :
        tool \in GetAllTools(tools)
            <=> tool \in Range(GetServerTools(serverTools, GroupOf(tool)))

\* the calls made on the manager so far
Issued == {c \in Calls : calls[c].pc # "idle"}

C40_StatusHoldsNoStaleFields ==
    \A n \in ServerNames :
        LET st == GetServerStatus(serverStatuses, n) IN
        /\ st.status \in {"running", "stopped"} => "error" \notin DOMAIN st
        /\ (st.status = "error" /\ st.error = "start failed")
               => ("toolCount" \notin DOMAIN st \/ st.toolCount = 0)

====
